---- MODULE Spec2Model ----
(***************************************************************************)
(* Parcel status lifecycle of the SwiftDrop server: the parcel service     *)
(* (services/parcel.service.ts) and the request handlers in front of it    *)
(* (controllers/parcels.controller.ts), over one document store.           *)
(*                                                                         *)
(* updateParcelStatus and cancelParcel are read-modify-write sequences     *)
(* with two suspension points (await getParcelById, await p.save()), so    *)
(* each is two steps here and requests interleave between them.            *)
(***************************************************************************)
EXTENDS Integers, Sequences, FiniteSets, Bags, TLC

\* ---------------------------------------------------------------- bounds
MaxParcels == 2     \* parcels ever created
MaxLogs    == 3     \* status-log entries in the store, in-flight ones included
MaxReqs    == 2     \* requests in flight at once
MaxClock   == 1     \* the wall clock runs 0..MaxClock
MaxFilters == 2     \* filters given at once in the query of a list request

\* ---------------------------------------------------------------- values
\* A JavaScript undefined: an optional argument or field that is absent.
Undefined == "undefined"

\* if (x) / x || y : undefined and the empty string are falsy.
Truthy(v) == v \notin {Undefined, ""}

Statuses == {"Created", "Dispatched", "InTransit", "Delivered", "Cancelled"}

\* What a caller may put in the body's status field: a status, another
\* string, or nothing.
GivenStatuses == Statuses \cup {"Bogus"}

StatusInputs == GivenStatuses \cup {Undefined}

\* Ids of authenticated users (req.user.id).
Users == {"u1"}

\* The note of a create request: absent, empty or given.
Notes == {Undefined, "", "fragile"}

\* The note of an update-status request.
UpdateNotes == {"left the hub"}

\* What generateTrackingId() may return: few enough to collide.
TrackingIds == {"TRK-1", "TRK-2"}

\* _id of the n-th created parcel is n; MaxParcels + 1 is a well-formed id no
\* parcel ever has; MalformedId is an id string that is no ObjectId at all.
MalformedId == 0

ObjectIds == 1..(MaxParcels + 1)

IdInputs == ObjectIds \cup {MalformedId}

\* Types.ObjectId.isValid(id)
isValid(id) == id \in ObjectIds

NoParcel == [status |-> Undefined]

\* ---------------------------------------------------------------- state
VARIABLES
    parcels,    \* the parcels collection: parcels[n] is the document with _id n
    req,        \* the requests in flight (a bag): what each loaded and built
    resp,       \* the response the last finished request got
    now         \* the wall clock (new Date())

vars == <<parcels, req, resp, now>>

Response(op, code, message) == [op |-> op, code |-> code, message |-> message]

\* Parcel.findById(id) for an ObjectId: the document, or null (NoParcel).
findById(id) == IF id \in 1..Len(parcels) THEN parcels[id] ELSE NoParcel

\* getParcelById: null for an id that is no ObjectId, else findById.
getParcelById(id) == IF ~isValid(id) THEN NoParcel ELSE findById(id)

\* Entries stored, plus one for each request in flight (each will push one).
RECURSIVE Stored(_)
Stored(n) == IF n = 0 THEN 0 ELSE Len(parcels[n].statusLogs) + Stored(n - 1)

Entries == Stored(Len(parcels)) + BagCardinality(req)

\* The server takes a new request while fewer than MaxReqs are in flight.
Room == BagCardinality(req) < MaxReqs

\* The requests in flight.
InFlight == BagToSet(req)

\* A handler that does not test the service's result for null.
NotFoundUnchecked(op) == Response(op, 200, "success")

\* The handlers' answer to a null from the service.
NotFound(op) == Response(op, 404, "Parcel not found")

Init ==
    /\ parcels = <<>>
    /\ req = EmptyBag
    /\ resp = Response("none", 0, "")
    /\ now = 0

\* Time passes.
Tick ==
    /\ now < MaxClock
    /\ now' = now + 1
    /\ UNCHANGED <<parcels, req, resp>>

\* ------------------------------------------------ the Parcel model's schema
\* A status path without an enum.
AnyStatus(s) == TRUE

\* status: { enum: [...] }: the validation save() and create() run on status.
ValidStatus(s) == s \in Statuses

\* trackingId: { unique: true }: the index rejects a second document with
\* the same trackingId.
TrackingIdTaken(tid) == \E n \in 1..Len(parcels) : parcels[n].trackingId = tid

\* ---------------------------------------------------------- createParcel
\* An initial log without the default note.
InitialLogNoDefault(senderId, note) ==
    [status    |-> "Created",
     timestamp |-> now,
     note      |-> note,
     updatedBy |-> senderId]

\* The initial status log of createParcel: updatedBy is the sender.
InitialLog(senderId, note) ==
    [status    |-> "Created",
     timestamp |-> now,
     note      |-> IF Truthy(note) THEN note ELSE "Parcel created",
     updatedBy |-> senderId]

\* The document createParcel hands to Parcel.create.
NewParcel(tid, senderId, receiverId, origin, destination, note) ==
    [trackingId  |-> tid,
     senderId    |-> senderId,
     receiverId  |-> receiverId,
     origin      |-> origin,
     destination |-> destination,
     status      |-> "Created",
     statusLogs  |-> <<InitialLog(senderId, note)>>]

\* createParcel(dto), with tid the identifier generateTrackingId() returned:
\* one insert, which the unique index may reject (the error is thrown).
createParcel(tid, senderId, receiverId, origin, destination, note) ==
    IF TrackingIdTaken(tid)
    THEN /\ resp' = Response("create", 400, "E11000 duplicate key")
         /\ UNCHANGED parcels
    ELSE /\ resp' = Response("create", 201, "success")
         /\ parcels' = Append(parcels,
                NewParcel(tid, senderId, receiverId, origin, destination, note))

\* createParcelHandler: 401 without a user, 400 without the required body
\* fields, else createParcel; whatever it throws becomes a 400.
CreateParcelHandler(user, receiverId, origin, destination, note, tid) ==
    /\ UNCHANGED <<req, now>>
    /\ Len(parcels) < MaxParcels
    /\ Entries < MaxLogs
    /\ Room
    /\ IF ~Truthy(user)
       THEN /\ resp' = Response("create", 401, "Not authenticated")
            /\ UNCHANGED parcels
       ELSE IF ~Truthy(receiverId) \/ ~Truthy(origin) \/ ~Truthy(destination)
       THEN /\ resp' = Response("create", 400, "Missing required parcel fields")
            /\ UNCHANGED parcels
       ELSE createParcel(tid, user, receiverId, origin, destination, note)

\* ---------------------------------------------------- p.save() (Mongoose)
\* A lost-update save: the whole loaded document written back.
SaveWholeDocument(doc, q) ==
    [doc EXCEPT !.status     = q.log.status,
                !.statusLogs = Append(SubSeq(@, 1, q.seen), q.log)]

\* What save() writes for the document a request q loaded (with status
\* q.loaded), then assigned q.log.status and pushed q.log: the modified paths
\* only. Assigning a path the value it already has leaves it unmodified, so
\* status is $set only when it differs from the loaded one; the pushed entry
\* is a $push on the stored array. The update is one atomic write.
Save(doc, q) ==
    [doc EXCEPT !.status     = IF q.log.status # q.loaded THEN q.log.status ELSE @,
                !.statusLogs = Append(@, q.log)]

\* ---------------------------------------------------- updateParcelStatus
\* The log entry updateParcelStatus builds: updatedBy only when provided.
StatusLog(status, updatedBy, note) ==
    [status    |-> status,
     timestamp |-> now,
     note      |-> note,
     updatedBy |-> IF Truthy(updatedBy) THEN updatedBy ELSE Undefined]

\* An updateParcelStatus that refuses to leave a terminal status.
updateParcelStatusChecked(parcelId, status, updatedBy, note) ==
    LET p == getParcelById(parcelId) IN
    IF p = NoParcel
    THEN /\ resp' = NotFound("update")
         /\ UNCHANGED <<parcels, req, now>>
    ELSE IF p.status \in {"Delivered", "Cancelled"}
    THEN /\ resp' = Response("update", 400, "Illegal transition")
         /\ UNCHANGED <<parcels, req, now>>
    ELSE /\ UNCHANGED <<parcels, resp, now>>
         /\ Entries < MaxLogs
         /\ req' = req (+) SetToBag({
                [op |-> "update", id |-> parcelId, loaded |-> p.status,
                 seen |-> Len(p.statusLogs),
                 log |-> StatusLog(status, updatedBy, note)]})

\* updateParcelStatus up to its await p.save(): load the parcel (null ends
\* the call: 404), assign the status, build and push the entry.
updateParcelStatus(parcelId, status, updatedBy, note) ==
    LET p == getParcelById(parcelId) IN
    IF p = NoParcel
    THEN /\ resp' = NotFound("update")
         /\ UNCHANGED <<parcels, req, now>>
    ELSE /\ UNCHANGED <<parcels, resp, now>>
         /\ Entries < MaxLogs
         /\ req' = req (+) SetToBag({
                [op |-> "update", id |-> parcelId, loaded |-> p.status,
                 seen |-> Len(p.statusLogs),
                 log |-> StatusLog(status, updatedBy, note)]})

\* updateStatusHandler: 401 without a user, 400 without a status, else the
\* service call with String(status) and the user's id.
UpdateStatusHandler(user, id, status, note) ==
    /\ Room
    /\ IF ~Truthy(user)
       THEN /\ resp' = Response("update", 401, "Not authenticated")
            /\ UNCHANGED <<parcels, req, now>>
       ELSE IF ~Truthy(status)
       THEN /\ resp' = Response("update", 400, "Missing status")
            /\ UNCHANGED <<parcels, req, now>>
       ELSE updateParcelStatus(id, status, user, note)

\* await p.save() of updateParcelStatus, and the handler's response: a
\* status the schema rejects makes save throw (400), else the write lands.
UpdateSave(q) ==
    /\ BagIn(q, req)
    /\ q.op = "update"
    /\ IF ~ValidStatus(q.log.status)
       THEN /\ resp' = Response("update", 400, "Validation failed")
            /\ UNCHANGED parcels
       ELSE /\ parcels' = [parcels EXCEPT ![q.id] = Save(@, q)]
            /\ resp' = Response("update", 200, "success")
    /\ req' = req (-) SetToBag({q})
    /\ UNCHANGED now

\* ---------------------------------------------------------- cancelParcel
\* A guard that lets a delivered parcel through.
AfterDispatchInFlight == {"Dispatched", "InTransit"}

\* The statuses cancelParcel refuses.
AfterDispatch == {"Dispatched", "InTransit", "Delivered"}

\* A cancel entry that never names the acting user.
CancelLogAnonymous(userId) ==
    [status    |-> "Cancelled",
     timestamp |-> now,
     note      |-> "Cancelled by user",
     updatedBy |-> Undefined]

\* The log entry cancelParcel builds.
CancelLog(userId) ==
    [status    |-> "Cancelled",
     timestamp |-> now,
     note      |-> "Cancelled by user",
     updatedBy |-> IF Truthy(userId) THEN userId ELSE Undefined]

\* cancelParcel up to its await p.save(): load (null: 404), refuse after
\* dispatch (the throw becomes the handler's 400), else assign and push.
cancelParcel(parcelId, userId) ==
    LET p == getParcelById(parcelId) IN
    IF p = NoParcel
    THEN /\ resp' = NotFound("cancel")
         /\ UNCHANGED <<parcels, req, now>>
    ELSE IF p.status \in AfterDispatch
    THEN /\ resp' = Response("cancel", 400, "Cannot cancel parcel after dispatch")
         /\ UNCHANGED <<parcels, req, now>>
    ELSE /\ UNCHANGED <<parcels, resp, now>>
         /\ Entries < MaxLogs
         /\ req' = req (+) SetToBag({
                [op |-> "cancel", id |-> parcelId, loaded |-> p.status,
                 seen |-> Len(p.statusLogs),
                 log |-> CancelLog(userId)]})

\* cancelParcelHandler: 401 without a user, else the service call.
CancelParcelHandler(user, id) ==
    /\ Room
    /\ IF ~Truthy(user)
       THEN /\ resp' = Response("cancel", 401, "Not authenticated")
            /\ UNCHANGED <<parcels, req, now>>
       ELSE cancelParcel(id, user)

\* await p.save() of cancelParcel, and the handler's response.
CancelSave(q) ==
    /\ BagIn(q, req)
    /\ q.op = "cancel"
    /\ parcels' = [parcels EXCEPT ![q.id] = Save(@, q)]
    /\ resp' = Response("cancel", 200, "success")
    /\ req' = req (-) SetToBag({q})
    /\ UNCHANGED now

\* Request bodies of POST /parcels: complete, or one required field missing.
CreateBodies ==
    {[receiverId |-> "u1",      origin |-> "Lagos",   destination |-> "Abuja"],
     [receiverId |-> Undefined, origin |-> "Lagos",   destination |-> "Abuja"],
     [receiverId |-> "u1",      origin |-> Undefined, destination |-> "Abuja"],
     [receiverId |-> "u1",      origin |-> "Lagos",   destination |-> Undefined]}

\* A request without an authenticated user: answered 401 whatever it asks.
Unauthenticated ==
    \/ CreateParcelHandler(Undefined, "u1", "Lagos", "Abuja", Undefined, "TRK-1")
    \/ UpdateStatusHandler(Undefined, 1, "Dispatched", "left the hub")
    \/ CancelParcelHandler(Undefined, 1)

Next ==
    \/ Unauthenticated
    \/ \E user \in Users, body \in CreateBodies, note \in Notes,
          tid \in TrackingIds :
            CreateParcelHandler(user, body.receiverId, body.origin,
                                body.destination, note, tid)
    \/ \E user \in Users, id \in IdInputs,
          status \in StatusInputs, note \in UpdateNotes :
            UpdateStatusHandler(user, id, status, note)
    \/ \E q \in InFlight : UpdateSave(q)
    \/ \E user \in Users, id \in IdInputs :
            CancelParcelHandler(user, id)
    \/ \E q \in InFlight : CancelSave(q)

\* The requests alone: the clock stands still while they are served.
Spec == Init /\ [][Next]_vars

\* The requests, with time passing between their steps.
NextClock == Tick \/ Next

SpecClock == Init /\ [][NextClock]_vars

\* ------------------------------------------------------- a faulted store
\* The message of the error the driver rejects with when the store is
\* unreachable or fails.
StorageError == "connect ECONNREFUSED"

\* The catch block of createParcelHandler, updateStatusHandler and
\* cancelParcelHandler: status 400 with the caught error's own message.
Caught(op, message) == Response(op, 400, message)

\* createParcelHandler when Parcel.create rejects with a storage error.
CreateParcelFault(user, receiverId, origin, destination) ==
    /\ Len(parcels) < MaxParcels
    /\ Room
    /\ Truthy(user)
    /\ Truthy(receiverId) /\ Truthy(origin) /\ Truthy(destination)
    /\ resp' = Caught("create", StorageError)
    /\ UNCHANGED <<parcels, req, now>>

\* updateStatusHandler when the findById of getParcelById rejects (the id is
\* an ObjectId, or there would be no query).
UpdateLoadFault(user, id, status) ==
    /\ Room
    /\ Truthy(user) /\ Truthy(status)
    /\ isValid(id)
    /\ resp' = Caught("update", StorageError)
    /\ UNCHANGED <<parcels, req, now>>

\* cancelParcelHandler when the findById of getParcelById rejects.
CancelLoadFault(user, id) ==
    /\ Room
    /\ Truthy(user)
    /\ isValid(id)
    /\ resp' = Caught("cancel", StorageError)
    /\ UNCHANGED <<parcels, req, now>>

\* await p.save() rejecting with a storage error, in updateParcelStatus or
\* cancelParcel: nothing is written and the handler's catch block answers.
SaveFault(q) ==
    /\ BagIn(q, req)
    /\ resp' = Caught(q.op, StorageError)
    /\ req' = req (-) SetToBag({q})
    /\ UNCHANGED <<parcels, now>>

\* The requests, over a store that may fail at each of its operations.
NextFault ==
    \/ Next
    \/ \E user \in Users :
          CreateParcelFault(user, "u1", "Lagos", "Abuja")
    \/ \E user \in Users, id \in ObjectIds, status \in GivenStatuses :
          UpdateLoadFault(user, id, status)
    \/ \E user \in Users, id \in ObjectIds : CancelLoadFault(user, id)
    \/ \E q \in InFlight : SaveFault(q)

SpecFault == Init /\ [][NextFault]_vars

\* ------------------------------------------------------------ listParcels
\* A date filter that is absent.
NoDate == -1

\* req.user of a list request: nobody, or u1 in one of the three roles.
NoUser == [id |-> Undefined, role |-> Undefined]

Callers ==
    {NoUser} \cup {[id |-> u, role |-> r] :
                      u \in Users, r \in {"sender", "receiver", "admin"}}

\* req.query: each recognised filter absent or given; at most MaxFilters
\* of them given at once.
NoFilters ==
    [status |-> Undefined, senderId |-> Undefined, receiverId |-> Undefined,
     trackingId |-> Undefined, q |-> Undefined,
     fromDate |-> NoDate, toDate |-> NoDate]

GivenFilters ==
    [status |-> "Dispatched", senderId |-> "u2", receiverId |-> "u2",
     trackingId |-> "TRK-1", q |-> "trk-2",
     fromDate |-> 1, toDate |-> 0]

Queries ==
    {[k \in DOMAIN NoFilters |-> IF k \in ks THEN GivenFilters[k] ELSE NoFilters[k]] :
        ks \in {s \in SUBSET (DOMAIN NoFilters) : Cardinality(s) <= MaxFilters}}

\* What parsePagination(req.query) returns: the default, and pages of one.
Pagings ==
    {[page |-> 1, limit |-> 10, sort |-> "-createdAt"],
     [page |-> 1, limit |-> 1,  sort |-> "createdAt"],
     [page |-> 2, limit |-> 1,  sort |-> "-createdAt"]}

\* new RegExp(term, "i").test(text), for the terms of GivenFilters.
RegExpTest(term, text) == <<term, text>> \in {<<"trk-2", "TRK-2">>}

\* The creation time of a document: that of its first log entry.
createdAt(doc) == doc.statusLogs[1].timestamp

\* buildParcelsQuery: a condition for each filter that is given.
buildParcelsQuery(filters) ==
    [status     |-> IF Truthy(filters.status) THEN filters.status ELSE Undefined,
     senderId   |-> IF Truthy(filters.senderId) THEN filters.senderId ELSE Undefined,
     receiverId |-> IF Truthy(filters.receiverId) THEN filters.receiverId ELSE Undefined,
     trackingId |-> IF Truthy(filters.trackingId) THEN filters.trackingId ELSE Undefined,
     or         |-> IF Truthy(filters.q) THEN filters.q ELSE Undefined,
     gte        |-> filters.fromDate,
     lte        |-> filters.toDate]

\* Whether a document satisfies the query q (all of its conditions).
Matches(doc, q) ==
    /\ q.status = Undefined \/ doc.status = q.status
    /\ q.senderId = Undefined \/ doc.senderId = q.senderId
    /\ q.receiverId = Undefined \/ doc.receiverId = q.receiverId
    /\ q.trackingId = Undefined \/ doc.trackingId = q.trackingId
    /\ \/ q.or = Undefined
       \/ RegExpTest(q.or, doc.origin)
       \/ RegExpTest(q.or, doc.destination)
       \/ RegExpTest(q.or, doc.trackingId)
    /\ q.gte = NoDate \/ createdAt(doc) >= q.gte
    /\ q.lte = NoDate \/ createdAt(doc) <= q.lte

Reverse(seq) == [i \in 1..Len(seq) |-> seq[Len(seq) + 1 - i]]

\* Parcel.find(q), over the collection store (in creation order).
find(store, q) == SelectSeq(store, LAMBDA doc : Matches(doc, q))

\* listParcels: the matching documents sorted, skipped and limited, and the
\* count of all matching documents.
listParcels(store, filters, page, limit, sort) ==
    LET q      == buildParcelsQuery(filters)
        found  == find(store, q)
        sorted == IF sort = "-createdAt" THEN Reverse(found) ELSE found
        skip   == (page - 1) * limit
        upto   == IF skip + limit < Len(sorted) THEN skip + limit ELSE Len(sorted)
    IN  [items |-> SubSeq(sorted, skip + 1, upto), total |-> Len(found)]

\* buildPaginationResult(items, total, page, limit)
buildPaginationResult(items, total, page, limit) ==
    [items |-> items, total |-> total, page |-> page, limit |-> limit,
     pageCount |-> (total + limit - 1) \div limit]

\* A handler that restricts only a caller who names no sender or receiver.
RoleFiltersIfAbsent(user, query) ==
    [query EXCEPT
        !.senderId   = IF user.role = "sender" /\ ~Truthy(@) THEN user.id ELSE @,
        !.receiverId = IF user.role = "receiver" /\ ~Truthy(@) THEN user.id ELSE @]

\* The filters listParcelsHandler passes on: the query's, with senderId
\* (role sender) or receiverId (role receiver) set to the caller's id.
RoleFilters(user, query) ==
    [query EXCEPT
        !.senderId   = IF user # NoUser /\ user.role = "sender" THEN user.id ELSE @,
        !.receiverId = IF user # NoUser /\ user.role = "receiver" THEN user.id ELSE @]

\* The body listParcelsHandler answers with, were store the collection.
Listing(store, user, query, paging) ==
    LET found == listParcels(store, RoleFilters(user, query),
                             paging.page, paging.limit, paging.sort)
    IN  buildPaginationResult(found.items, found.total, paging.page, paging.limit)

\* A list request in flight (the handler awaits listParcels).
ListRequest(user, query, paging) ==
    [op |-> "list", user |-> user, query |-> query, paging |-> paging]

ListRequests ==
    {ListRequest(user, query, paging) :
        user \in Callers, query \in Queries, paging \in Pagings}

\* listParcelsHandler answering the request q in flight. The response is
\* recorded with the request it answers.
ListParcelsHandler(q) ==
    /\ BagIn(q, req)
    /\ q.op = "list"
    /\ resp' = [op |-> "list", code |-> 200, message |-> "success",
                body |-> Listing(parcels, q.user, q.query, q.paging),
                user |-> q.user, query |-> q.query, paging |-> q.paging]
    /\ req' = req (-) SetToBag({q})
    /\ UNCHANGED <<parcels, now>>

\* The collections the listing is taken over: up to MaxParcels parcels, each
\* sent by one party to another, Created or already Dispatched.
ListedTrackingIds == <<"TRK-1", "TRK-2", "TRK-3", "TRK-4">>

\* The n-th document, as createParcel stored it at time 0 and, for a
\* status other than Created, as one updateParcelStatus then left it.
Listed(n, senderId, receiverId, status) ==
    [trackingId  |-> ListedTrackingIds[n],
     senderId    |-> senderId,
     receiverId  |-> receiverId,
     origin      |-> "Lagos",
     destination |-> "Abuja",
     status      |-> status,
     statusLogs  |->
        <<[status |-> "Created", timestamp |-> 0,
           note |-> "Parcel created", updatedBy |-> senderId]>>
        \o (IF status = "Created" THEN <<>>
            ELSE <<[status |-> status, timestamp |-> 0,
                    note |-> "left the hub", updatedBy |-> "u1"]>>)]

ListedKinds ==
    {<<"u1", "u2">>, <<"u2", "u1">>, <<"u2", "u2">>} \X {"Created", "Dispatched"}

ListStores ==
    UNION {{[n \in 1..k |-> Listed(n, ks[n][1][1], ks[n][1][2], ks[n][2])] :
               ks \in [1..k -> ListedKinds]} : k \in 0..MaxParcels}

\* One list request, over one of the collections.
InitList ==
    /\ now = 0
    /\ resp = Response("none", 0, "")
    /\ parcels \in ListStores
    /\ req \in {SetToBag({q}) : q \in ListRequests}

NextList == \E q \in InFlight : ListParcelsHandler(q)

SpecList == InitList /\ [][NextList]_vars

\* ================================================================ claims
Last(seq) == seq[Len(seq)]

IsPrefix(s, t) == Len(s) <= Len(t) /\ SubSeq(t, 1, Len(s)) = s

Stores == 1..Len(parcels)

\* The parcels of store that are the user's own in the user's role.
Own(store, user) ==
    SelectSeq(store, LAMBDA doc :
        IF user.role = "sender" THEN doc.senderId = user.id
        ELSE doc.receiverId = user.id)

\* Request q is in flight on a parcel that took a write since q loaded it.
Overtaken(q) == Len(parcels[q.id].statusLogs) > q.seen

\* ... and that write was an updateParcelStatus (no cancel entry).
OvertakenByUpdate(q) ==
    /\ Overtaken(q)
    /\ Last(parcels[q.id].statusLogs).note # "Cancelled by user"

\* The step took request q in: one more request in flight, q among them.
TakenIn(q) ==
    /\ BagCardinality(req') = BagCardinality(req) + 1
    /\ CopiesIn(q, req') = CopiesIn(q, req) + 1

\* C1: in every reachable state, each stored parcel's status is the status
\* of the last entry of its statusLogs.
C1_StatusIsLastLog ==
    \A n \in Stores : parcels[n].status = Last(parcels[n].statusLogs).status

\* C2: statusLogs is append-only: over every step no parcel disappears and
\* each parcel's stored log before the step is a prefix of its log after it;
\* after the step every log is non-empty and starts with the Created entry.
C2_LogsAppendOnly ==
    [][/\ Len(parcels') >= Len(parcels)
       /\ \A n \in Stores :
             IsPrefix(parcels[n].statusLogs, parcels'[n].statusLogs)
       /\ \A n \in 1..Len(parcels') :
             /\ Len(parcels'[n].statusLogs) >= 1
             /\ parcels'[n].statusLogs[1].status = "Created"]_vars

\* C2 witness: a write landed on a parcel that another request, still in
\* flight, loaded before it; and a request failed after it (a refused
\* cancel), leaving the log as it was.
C2_Witness ==
    \E n \in Stores : \E q \in InFlight :
        /\ q.id = n
        /\ q.seen = 1
        /\ Len(parcels[n].statusLogs) = 2
        /\ resp = Response("cancel", 400, "Cannot cancel parcel after dispatch")

\* C3: a cancel of a parcel whose status is Dispatched, InTransit or
\* Delivered is answered with the error 'Cannot cancel parcel after dispatch'
\* and leaves the store (and the requests in flight) as it was.
C3_CancelAfterDispatchRefused ==
    [][\A id \in Stores, u \in Users :
          ( /\ parcels[id].status \in {"Dispatched", "InTransit", "Delivered"}
            /\ CancelParcelHandler(u, id) )
          => /\ resp' = Response("cancel", 400, "Cannot cancel parcel after dispatch")
             /\ parcels' = parcels
             /\ req' = req]_vars

\* C3 witness: a cancel was refused and the parcel is still after dispatch.
C3_Witness ==
    /\ resp = Response("cancel", 400, "Cannot cancel parcel after dispatch")
    /\ \E n \in Stores : parcels[n].status = "Delivered"

\* C4: no cancel writes Cancelled onto a parcel whose stored status at the
\* moment of the write is Dispatched, InTransit or Delivered.
C4_NoCancelAfterDispatch ==
    [][\A q \in InFlight :
          CancelSave(q) =>
              parcels[q.id].status \notin {"Dispatched", "InTransit", "Delivered"}]_vars

\* C5: when an update's save lands on a parcel another update wrote since
\* this one loaded it, both entries are in the stored log afterwards and
\* the stored status is the one this, the last, save wrote.
C5_LastSaveWins ==
    [][\A q \in InFlight :
          ( /\ UpdateSave(q)
            /\ q.log.status \in Statuses
            /\ OvertakenByUpdate(q) )
          => /\ parcels'[q.id].statusLogs = Append(parcels[q.id].statusLogs, q.log)
             /\ parcels'[q.id].status = q.log.status]_vars

\* C6: a create request with all required fields, whose tracking id is not
\* taken, stores one new parcel with status Created and exactly one log
\* entry: status Created, updatedBy the sender, note the caller's note or,
\* without one, 'Parcel created'.
C6_CreateStoresCreated ==
    [][\A user \in Users, body \in CreateBodies, note \in Notes,
         tid \in TrackingIds :
          ( /\ Truthy(body.receiverId) /\ Truthy(body.origin)
            /\ Truthy(body.destination)
            /\ ~TrackingIdTaken(tid)
            /\ CreateParcelHandler(user, body.receiverId, body.origin,
                                   body.destination, note, tid) )
          => /\ Len(parcels') = Len(parcels) + 1
             /\ SubSeq(parcels', 1, Len(parcels)) = parcels
             /\ resp'.code = 201
             /\ LET p == parcels'[Len(parcels')] IN
                /\ p.status = "Created"
                /\ p.senderId = user
                /\ Len(p.statusLogs) = 1
                /\ p.statusLogs[1].status = "Created"
                /\ p.statusLogs[1].updatedBy = user
                /\ p.statusLogs[1].note =
                       IF note \in {Undefined, ""} THEN "Parcel created" ELSE note]_vars

\* C6 witness: two parcels just created, one with the default note and one
\* with the caller's.
C6_Witness ==
    /\ resp = Response("create", 201, "success")
    /\ Len(parcels) = 2
    /\ \A n \in Stores : Len(parcels[n].statusLogs) = 1
    /\ parcels[1].statusLogs[1].note = "Parcel created"
    /\ parcels[2].statusLogs[1].note = "fragile"

\* C7: an update of an existing parcel is accepted whatever the parcel's
\* status and whichever of the five statuses is requested; its save, when
\* no other write reached the parcel since the request loaded it, sets the
\* status to the requested one and appends exactly the request's entry,
\* which carries that status.
C7_UpdateUnconditional ==
    [][/\ \A id \in Stores, u \in Users, st \in Statuses, note \in UpdateNotes :
             UpdateStatusHandler(u, id, st, note)
             => /\ \E q \in BagToSet(req') :
                      /\ TakenIn(q)
                      /\ q.op = "update"
                      /\ q.id = id
                      /\ q.log.status = st
                /\ resp' = resp
       /\ \A q \in InFlight :
             ( /\ UpdateSave(q)
               /\ q.log.status \in Statuses
               /\ ~Overtaken(q) )
             => /\ parcels'[q.id].status = q.log.status
                /\ parcels'[q.id].statusLogs = Append(parcels[q.id].statusLogs, q.log)
                /\ \A m \in Stores \ {q.id} : parcels'[m] = parcels[m]
                /\ resp' = Response("update", 200, "success")]_vars

\* C7 witness: a parcel left Delivered, or Cancelled, by an update.
C7_Witness ==
    \E n \in Stores :
        /\ Len(parcels[n].statusLogs) = 3
        /\ parcels[n].statusLogs[2].status \in {"Delivered", "Cancelled"}
        /\ parcels[n].statusLogs[3].status = "Dispatched"
        /\ parcels[n].statusLogs[3].note # "Cancelled by user"
        /\ parcels[n].status = "Dispatched"
        /\ resp = Response("update", 200, "success")

C9_CancelCreated ==
    [][/\ \A id \in Stores, u \in Users :
             ( /\ parcels[id].status = "Created"
               /\ CancelParcelHandler(u, id) )
             => /\ \E q \in BagToSet(req') :
                      /\ TakenIn(q)
                      /\ q.op = "cancel"
                      /\ q.id = id
                      /\ q.log.status = "Cancelled"
                      /\ q.log.note = "Cancelled by user"
                      /\ q.log.updatedBy = (IF Truthy(u) THEN u ELSE Undefined)
                /\ resp' = resp
       /\ \A q \in InFlight :
             ( /\ CancelSave(q)
               /\ q.loaded = "Created" )
             => /\ parcels'[q.id].status = "Cancelled"
                /\ parcels'[q.id].statusLogs = Append(parcels[q.id].statusLogs, q.log)
                /\ resp' = Response("cancel", 200, "success")]_vars

\* C9 witness: create, then cancel: two entries, the second the cancel's.
C9_Witness ==
    \E n \in Stores :
        /\ parcels[n].status = "Cancelled"
        /\ Len(parcels[n].statusLogs) = 2
        /\ parcels[n].statusLogs[2] =
               [status |-> "Cancelled", timestamp |-> now,
                note |-> "Cancelled by user", updatedBy |-> "u1"]
        /\ resp = Response("cancel", 200, "success")

\* C10: an update or a cancel whose id is malformed, or well-formed but of
\* no parcel, is answered 404 'Parcel not found', the same in both cases, and
\* changes nothing stored. (Each conjunct reads: the step has that outcome,
\* or it is no such request, whatever status the request gives.)
C10_NotFound ==
    [][\A id \in IdInputs, u \in Users :
          (id \notin Stores) =>
          /\ \/ /\ resp' = Response("update", 404, "Parcel not found")
                /\ parcels' = parcels
                /\ req' = req
             \/ ~ \E st \in GivenStatuses, note \in UpdateNotes :
                     UpdateStatusHandler(u, id, st, note)
          /\ \/ /\ resp' = Response("cancel", 404, "Parcel not found")
                /\ parcels' = parcels
                /\ req' = req
             \/ ~ CancelParcelHandler(u, id)]_vars

\* C10 witness: with a parcel stored, a request was answered not found.
C10_Witness ==
    /\ resp \in {Response("update", 404, "Parcel not found"),
                  Response("cancel", 404, "Parcel not found")}
    /\ Len(parcels) >= 1

\* The messages of the validation and illegal-transition errors.
ClientErrors ==
    {"Missing required parcel fields", "Missing status", "Validation failed",
     "Cannot cancel parcel after dispatch"}

\* C11: a storage fault, or any other unexpected error, during create,
\* update or cancel is answered 500 and never with the error's own message;
\* a 400 carries a validation or an illegal-transition message only.
C11_FaultIsServerError ==
    /\ resp.message # StorageError
    /\ resp.code = 400 => resp.message \in ClientErrors

\* C12: a create whose generated tracking id is already stored is retried
\* with another id inside the service, so the caller gets the new parcel and
\* never the collision; and after every step no two stored parcels share a
\* trackingId.
C12_CollisionRetried ==
    [][/\ \A user \in Users, note \in Notes, tid \in TrackingIds :
             ( /\ TrackingIdTaken(tid)
               /\ CreateParcelHandler(user, "u1", "Lagos", "Abuja", note, tid) )
             => /\ resp'.code = 201
                /\ Len(parcels') = Len(parcels) + 1
       /\ \A m, n \in 1..Len(parcels') :
             parcels'[m].trackingId = parcels'[n].trackingId => m = n]_vars

\* C13: in every reachable state the timestamps of each stored parcel's
\* statusLogs are non-decreasing along the log.
C13_LogsChronological ==
    \A n \in Stores :
        \A i \in 1..(Len(parcels[n].statusLogs) - 1) :
            parcels[n].statusLogs[i].timestamp
                <= parcels[n].statusLogs[i + 1].timestamp

\* C14: a listing answered to a sender holds only parcels whose senderId is
\* the caller's id, one answered to a receiver only parcels whose receiverId
\* is, whatever the query; and over every collection with the same parcels
\* of the caller's own (differing in other users' parcels only) the same
\* request is answered with the same body.
C14_OwnParcelsOnly ==
    (resp.op = "list" /\ resp.user.role \in {"sender", "receiver"}) =>
        /\ Own(resp.body.items, resp.user) = resp.body.items
        /\ \A t \in ListStores :
              Own(t, resp.user) = Own(parcels, resp.user)
              => Listing(t, resp.user, resp.query, resp.paging) = resp.body

\* C14 witness: a sender who asked for another sender's parcels, over a
\* collection holding one of that sender's, got the one parcel of their own.
C14_Witness ==
    /\ resp.op = "list"
    /\ resp.user = [id |-> "u1", role |-> "sender"]
    /\ resp.query.senderId = "u2"
    /\ \E n \in Stores : parcels[n].senderId = "u2"
    /\ resp.body.total = 1
    /\ Len(resp.body.items) = 1
    /\ resp.body.items[1].senderId = "u1"

====
